---- MODULE Spec2Model ----
(***************************************************************************)
(* lazystream: the interactive single-stream flow (src/src/normal.rs) and  *)
(* the batch playlist / XMLTV generation (src/src/generate.rs), dispatched *)
(* by main (src/src/main.rs).                                              *)
(*                                                                         *)
(* u32 values are kept at their width as two 16-bit limbs <<hi, lo>>.      *)
(* The text of a file is kept as the sequence of its records; the text of  *)
(* a programme's <desc> and <icon> children is not kept.                   *)
(***************************************************************************)
EXTENDS Integers, Sequences, FiniteSets, TLC

VARIABLES
    output_type,     \* what parse_opts returned: "Normal" or "Playlist"
    pc,              \* position of the run in process()
    exit_code,       \* -1 while running, then 0, 1 (error) or 101 (panic)
    stderr,          \* messages log_error printed
    \* ---- generate.rs
    command,         \* GenerateCommand: "Playlist" or "Xmltv"
    quality,         \* opts.quality: "None" or "Some"
    start_channel,   \* the start_channel argument of create_playlist / create_xmltv
    overflow_checks, \* whether the build panics on integer overflow (else it wraps)
    games,           \* lazy_stream.games(): sequence of games, each its streams
    gi, si,          \* position of the for loops over games and over a game's streams
    id,              \* the local `id` of create_playlist / create_xmltv
    m3u,             \* records pushed to the m3u string
    channels,        \* channel elements pushed to the xmltv string
    programmes,      \* programme elements pushed to the xmltv string
    playlist_file,   \* the .m3u file: whether written, and its records
    xmltv_file,      \* the .xml file: whether written, its channels and programmes
    failed,          \* set of <<pass, game, feed>> whose resolution returned Err
    \* ---- normal.rs
    sport,           \* opts.sport
    game_count,      \* todays_schedule.games.len()
    inputs,          \* the values read by the input loop that is running or just ended
    choice,          \* the value the last input loop returned
    reprompts,       \* rejected inputs of the input loop that is running or just ended
    epg_left,        \* EPG entries the for loop has still to visit
    items,           \* the items of the EPG entry being processed
    game_prompts,    \* number of game selections completed
    stream_prompts,  \* number of stream selections completed
    stdout,          \* stream URLs printed
    last_err         \* the error of the fallible step that just failed, "" if none

gen_vars == <<command, quality, start_channel, overflow_checks, games, gi, si, id,
              m3u, channels, programmes, playlist_file, xmltv_file, failed>>
normal_vars == <<sport, game_count, inputs, choice, reprompts, epg_left, items,
                 game_prompts, stream_prompts, stdout, last_err>>
vars == <<output_type, pc, exit_code, stderr, gen_vars, normal_vars>>

----------------------------------------------------------------------------
\* Bounds of the model
MaxGames == 2          \* games of a schedule whose streams fail independently
MaxListed == 3         \* games / streams listed for an interactive selection
MaxReprompts == 2      \* rejected inputs of one interactive selection
MaxEpg == 2            \* EPG entries of a game content

\* Program constants
ChannelBank == 100
DefaultStartChannel == 1000

----------------------------------------------------------------------------
\* u32 arithmetic
Limb == 2^16

U32Of(n) == <<n \div Limb, n % Limb>>

\* a + n leaves the u32 range
U32Overflows(a, n) ==
    LET lo == a[2] + (n % Limb)
        hi == a[1] + (n \div Limb) + (lo \div Limb)
    IN  hi >= Limb

\* a + n modulo 2^32
U32WrappingAdd(a, n) ==
    LET lo == a[2] + (n % Limb)
        hi == a[1] + (n \div Limb) + (lo \div Limb)
    IN  <<hi % Limb, lo % Limb>>

----------------------------------------------------------------------------
\* Outcomes of the stream resolver
\* Stream::quality_link: the quality URL, or a manifest fetch / quality lookup error
QualityLinkResults ==
    { [ok |-> TRUE,  val |-> "quality_url"],
      [ok |-> FALSE, val |-> "ManifestFetchError"],
      [ok |-> FALSE, val |-> "QualityNotFound"] }

\* Stream::master_link: the manifest-fetch URL, built without a download
MasterLinkResults == { [ok |-> TRUE, val |-> "master_url"] }

\* generate.rs 87-91 / 180-184: the link of a stream under opts.quality
LinkResults(q) == IF q = "Some" THEN QualityLinkResults ELSE MasterLinkResults

----------------------------------------------------------------------------
\* Data of generate.rs

FeedTypes == <<"HOME", "AWAY">>

None == [some |-> FALSE, val |-> <<>>]
NoItems == [some |-> FALSE, val |-> 0]     \* epg.items absent; Some(n): n items
Some(v) == [some |-> TRUE, val |-> v]

\* Game.streams: unpopulated, or the streams in iteration order (by feed type)
StreamShapes == { None, Some(<<>>), Some(<<"HOME">>), Some(FeedTypes) }

\* a day with more streams than the channel bank has channels
FullDayGames == (ChannelBank \div 2) + 1

GameCounts == (0 .. MaxGames) \cup {FullDayGames}

\* start_channel values a user passes: the default, and one near u32::MAX
StartChannels == { U32Of(DefaultStartChannel), <<Limb - 1, Limb - 2>> }

NoFile == [written |-> FALSE, records |-> <<>>, channels |-> <<>>, programmes |-> <<>>]

\* streams of game g, in game-then-stream order, as <<game, feed>>
RECURSIVE StreamsFrom(_, _)
StreamsFrom(gs, g) ==
    IF g > Len(gs) THEN <<>>
    ELSE (IF gs[g].streams.some
          THEN [k \in 1 .. Len(gs[g].streams.val) |-> <<g, gs[g].streams.val[k]>>]
          ELSE <<>>) \o StreamsFrom(gs, g + 1)

AllStreams(gs) == StreamsFrom(gs, 1)

\* variant: the kickoff title even when paired with a guide
KickoffTitleAlways(is_xmltv, n, g, feed) ==
    [fmt |-> "{time} {away} @ {home} {feed}", n |-> 0, game |-> g, feed |-> feed]

\* generate.rs 94-108: the title of a playlist record
PlaylistTitle(is_xmltv, n, g, feed) ==
    IF is_xmltv
    THEN [fmt |-> "Lazyman {}", n |-> n + 1, game |-> 0, feed |-> ""]
    ELSE [fmt |-> "{time} {away} @ {home} {feed}", n |-> 0, game |-> g, feed |-> feed]

\* generate.rs 109-116: one #EXTINF record (start_channel + id wraps when the
\* build does not check overflow)
PlaylistRecord(sc, n, is_xmltv, g, feed, link) ==
    [ cuid     |-> U32WrappingAdd(sc, n),
      tvg_id   |-> U32WrappingAdd(sc, n),
      tvg_name |-> n + 1,
      title    |-> PlaylistTitle(is_xmltv, n, g, feed),
      link     |-> link,
      game     |-> g,
      feed     |-> feed ]

\* variant: id advances for a failed stream too
SkipIdOnFailure(text, n, sc, is_xmltv, g, feed, res) ==
    IF res.ok
    THEN [text |-> Append(text, PlaylistRecord(sc, n, is_xmltv, g, feed, res.val)),
          id |-> n + 1]
    ELSE [text |-> text, id |-> n + 1]

\* variant: a failed stream is recorded with the master URL
FallbackToMaster(text, n, sc, is_xmltv, g, feed, res) ==
    [text |-> Append(text, PlaylistRecord(sc, n, is_xmltv, g, feed,
                                          IF res.ok THEN res.val ELSE "master_url")),
     id |-> n + 1]

\* generate.rs 93-119: what one iteration does to (m3u, id) given the link
PlaylistPush(text, n, sc, is_xmltv, g, feed, res) ==
    IF res.ok
    THEN [text |-> Append(text, PlaylistRecord(sc, n, is_xmltv, g, feed, res.val)),
          id |-> n + 1]
    ELSE [text |-> text, id |-> n]

\* variant: the loop stops one channel short
NinetyNineChannels(sc) ==
    [k \in 1 .. ChannelBank - 1 |->
        [id |-> U32WrappingAdd(sc, k - 1), display_name |-> k]]

\* generate.rs 146-158: the channel elements of the while loop
ChannelElements(sc) ==
    [k \in 1 .. ChannelBank |->
        [id |-> U32WrappingAdd(sc, k - 1), display_name |-> k]]

\* generate.rs 189-215: one programme element
ProgrammeRecord(sc, n, g, feed) ==
    [ channel |-> U32WrappingAdd(sc, n),
      title   |-> [fmt |-> "{time} {feed} {away} @ {home}", n |-> 0,
                   game |-> g, feed |-> feed],
      game    |-> g,
      feed    |-> feed ]

\* generate.rs 186-218: what one iteration does to (xmltv, id) given the link
XmltvPush(text, n, sc, g, feed, res) ==
    IF res.ok
    THEN [text |-> Append(text, ProgrammeRecord(sc, n, g, feed)), id |-> n + 1]
    ELSE [text |-> text, id |-> n]

----------------------------------------------------------------------------
\* Initial states

NormalIdle ==
    /\ sport = "Nhl"
    /\ game_count = 0
    /\ inputs = <<>>
    /\ choice = 0
    /\ reprompts = 0
    /\ epg_left = 0
    /\ items = NoItems
    /\ game_prompts = 0
    /\ stream_prompts = 0
    /\ stdout = <<>>
    /\ last_err = ""

\* main.rs 24 -> generate.rs 12-21: crate::playlist::run(opts)
InitGenerate ==
    /\ output_type = "Playlist"
    /\ pc = "gen_start"
    /\ exit_code = -1
    /\ stderr = <<>>
    /\ command \in {"Playlist", "Xmltv"}
    /\ quality \in {"None", "Some"}
    /\ start_channel \in (IF command = "Xmltv" THEN StartChannels
                          ELSE {U32Of(DefaultStartChannel)})
    /\ overflow_checks \in BOOLEAN
    /\ games = <<>>
    /\ gi = 0
    /\ si = 0
    /\ id = 0
    /\ m3u = <<>>
    /\ channels = <<>>
    /\ programmes = <<>>
    /\ playlist_file = NoFile
    /\ xmltv_file = NoFile
    /\ failed = {}
    /\ NormalIdle

----------------------------------------------------------------------------
\* generate.rs: run / process

\* generate.rs 14-17: process returned Err: log_error, process::exit(1)
Fail(msg) ==
    /\ pc' = "error"
    /\ exit_code' = 1
    /\ stderr' = Append(stderr, msg)

\* a panic unwinds out of block_on: the process ends with status 101
Panic(msg) ==
    /\ pc' = "panicked"
    /\ exit_code' = 101
    /\ stderr' = Append(stderr, msg)

\* generate.rs 31: LazyStream::new(&opts).await? fetches the schedule
NewLazyStream ==
    /\ pc = "gen_start"
    /\ \E r \in {"Ok", "Err"} :
         IF r = "Ok"
         THEN /\ \E n \in GameCounts :
                   /\ (n > MaxGames => quality = "None")
                   /\ games' = [g \in 1 .. n |-> [streams |-> None]]
              /\ pc' = "resolve"
              /\ UNCHANGED <<exit_code, stderr>>
         ELSE /\ Fail("schedule fetch failed")
              /\ UNCHANGED games
    /\ UNCHANGED <<command, quality, start_channel, overflow_checks, gi, si, id, m3u,
                   channels, programmes, playlist_file, xmltv_file, failed>>
    /\ UNCHANGED <<output_type, normal_vars>>

\* generate.rs 33-41: resolve_with_quality_link / resolve_with_master_link return
\* nothing; afterwards a game's streams are populated or still None.  Then
\* generate.rs 43-66 calls create_playlist, whose lines 81-84 start the m3u text.
ResolveStreams ==
    /\ pc = "resolve"
    /\ IF Len(games) > MaxGames
       THEN games' = [g \in 1 .. Len(games) |-> [streams |-> Some(FeedTypes)]]
       ELSE \E shapes \in [1 .. Len(games) -> StreamShapes] :
              games' = [g \in 1 .. Len(games) |-> [streams |-> shapes[g]]]
    /\ pc' = "pl_game"
    /\ gi' = 1
    /\ si' = 0
    /\ id' = 0
    /\ m3u' = <<>>
    /\ UNCHANGED <<exit_code, stderr, command, quality, start_channel, overflow_checks,
                   channels, programmes, playlist_file, xmltv_file, failed>>
    /\ UNCHANGED <<output_type, normal_vars>>

\* generate.rs 85-86: next game of create_playlist; game.streams.as_mut().unwrap()
PlaylistGame ==
    /\ pc = "pl_game"
    /\ IF gi > Len(games)
       THEN /\ pc' = "pl_write"
            /\ UNCHANGED <<exit_code, stderr, si>>
       ELSE IF ~games[gi].streams.some
       THEN /\ Panic("called Option::unwrap() on a None value")
            /\ UNCHANGED si
       ELSE /\ pc' = "pl_stream"
            /\ si' = 1
            /\ UNCHANGED <<exit_code, stderr>>
    /\ UNCHANGED <<command, quality, start_channel, overflow_checks, games, gi, id, m3u,
                   channels, programmes, playlist_file, xmltv_file, failed>>
    /\ UNCHANGED <<output_type, normal_vars>>

\* generate.rs 86-120: one stream of the game in create_playlist
PlaylistStream ==
    /\ pc = "pl_stream"
    /\ IF si > Len(games[gi].streams.val)
       THEN /\ pc' = "pl_game"
            /\ gi' = gi + 1
            /\ UNCHANGED <<exit_code, stderr, si, id, m3u, failed>>
       ELSE \E res \in LinkResults(quality) :
              IF res.ok /\ overflow_checks /\ U32Overflows(start_channel, id)
              THEN /\ Panic("attempt to add with overflow")
                   /\ UNCHANGED <<gi, si, id, m3u, failed>>
              ELSE LET feed == games[gi].streams.val[si]
                       out == PlaylistPush(m3u, id, start_channel, command = "Xmltv",
                                           gi, feed, res)
                   IN  /\ m3u' = out.text
                       /\ id' = out.id
                       /\ si' = si + 1
                       /\ failed' = IF res.ok THEN failed
                                    ELSE failed \cup {<<"m3u", gi, feed>>}
                       /\ UNCHANGED <<pc, exit_code, stderr, gi>>
    /\ UNCHANGED <<command, quality, start_channel, overflow_checks, games,
                   channels, programmes, playlist_file, xmltv_file>>
    /\ UNCHANGED <<output_type, normal_vars>>

\* generate.rs 123-127: fs::write(&path, m3u).await?; then generate.rs 58-66:
\* Xmltv goes on to create_xmltv (137-146), Playlist returns Ok
PlaylistWrite ==
    /\ pc = "pl_write"
    /\ \E w \in {"Ok", "Err"} :
         IF w = "Err"
         THEN /\ Fail("write failed")
              /\ UNCHANGED <<playlist_file, channels, programmes, id>>
         ELSE /\ playlist_file' = [NoFile EXCEPT !.written = TRUE, !.records = m3u]
              /\ IF command = "Xmltv"
                 THEN /\ pc' = "xml_channels"
                      /\ channels' = <<>>
                      /\ programmes' = <<>>
                      /\ id' = 0
                      /\ UNCHANGED <<exit_code, stderr>>
                 ELSE /\ pc' = "done"
                      /\ exit_code' = 0
                      /\ UNCHANGED <<stderr, channels, programmes, id>>
    /\ UNCHANGED <<command, quality, start_channel, overflow_checks, games, gi, si, m3u,
                   xmltv_file, failed>>
    /\ UNCHANGED <<output_type, normal_vars>>

\* generate.rs 146-160: the while loop over the channel bank, then `id` restarts
XmltvChannels ==
    /\ pc = "xml_channels"
    /\ IF overflow_checks /\ U32Overflows(start_channel, ChannelBank - 1)
       THEN /\ Panic("attempt to add with overflow")
            /\ UNCHANGED <<channels, gi, id>>
       ELSE /\ channels' = ChannelElements(start_channel)
            /\ pc' = "xml_game"
            /\ gi' = 1
            /\ id' = 0
            /\ UNCHANGED <<exit_code, stderr>>
    /\ UNCHANGED <<command, quality, start_channel, overflow_checks, games, si, m3u,
                   programmes, playlist_file, xmltv_file, failed>>
    /\ UNCHANGED <<output_type, normal_vars>>

\* generate.rs 161-179: next game of create_xmltv (icons, description, unwrap)
XmltvGame ==
    /\ pc = "xml_game"
    /\ IF gi > Len(games)
       THEN /\ pc' = "xml_write"
            /\ UNCHANGED <<exit_code, stderr, si>>
       ELSE IF ~games[gi].streams.some
       THEN /\ Panic("called Option::unwrap() on a None value")
            /\ UNCHANGED si
       ELSE /\ pc' = "xml_stream"
            /\ si' = 1
            /\ UNCHANGED <<exit_code, stderr>>
    /\ UNCHANGED <<command, quality, start_channel, overflow_checks, games, gi, id, m3u,
                   channels, programmes, playlist_file, xmltv_file, failed>>
    /\ UNCHANGED <<output_type, normal_vars>>

\* generate.rs 179-219: one stream of the game in create_xmltv
XmltvStream ==
    /\ pc = "xml_stream"
    /\ IF si > Len(games[gi].streams.val)
       THEN /\ pc' = "xml_game"
            /\ gi' = gi + 1
            /\ UNCHANGED <<exit_code, stderr, si, id, programmes, failed>>
       ELSE \E res \in LinkResults(quality) :
              IF res.ok /\ overflow_checks /\ U32Overflows(start_channel, id)
              THEN /\ Panic("attempt to add with overflow")
                   /\ UNCHANGED <<gi, si, id, programmes, failed>>
              ELSE LET feed == games[gi].streams.val[si]
                       out == XmltvPush(programmes, id, start_channel, gi, feed, res)
                   IN  /\ programmes' = out.text
                       /\ id' = out.id
                       /\ si' = si + 1
                       /\ failed' = IF res.ok THEN failed
                                    ELSE failed \cup {<<"xml", gi, feed>>}
                       /\ UNCHANGED <<pc, exit_code, stderr, gi>>
    /\ UNCHANGED <<command, quality, start_channel, overflow_checks, games,
                   channels, m3u, playlist_file, xmltv_file>>
    /\ UNCHANGED <<output_type, normal_vars>>

\* generate.rs 222-228: fs::write(&path, xmltv).await?; Ok(())
XmltvWrite ==
    /\ pc = "xml_write"
    /\ \E w \in {"Ok", "Err"} :
         IF w = "Err"
         THEN /\ Fail("write failed")
              /\ UNCHANGED xmltv_file
         ELSE /\ xmltv_file' = [NoFile EXCEPT !.written = TRUE, !.channels = channels,
                                              !.programmes = programmes]
              /\ pc' = "done"
              /\ exit_code' = 0
              /\ UNCHANGED stderr
    /\ UNCHANGED <<command, quality, start_channel, overflow_checks, games, gi, si, id,
                   m3u, channels, programmes, playlist_file, failed>>
    /\ UNCHANGED <<output_type, normal_vars>>

NextGenerate ==
    \/ NewLazyStream
    \/ ResolveStreams
    \/ PlaylistGame
    \/ PlaylistStream
    \/ PlaylistWrite
    \/ XmltvChannels
    \/ XmltvGame
    \/ XmltvStream
    \/ XmltvWrite

----------------------------------------------------------------------------
\* normal.rs: run / process

\* main.rs 23 -> normal.rs 13-19: crate::normal::run(opts)
InitNormal ==
    /\ output_type = "Normal"
    /\ pc = "n_start"
    /\ exit_code = -1
    /\ stderr = <<>>
    /\ command = "Playlist"
    /\ quality \in {"None", "Some"}
    /\ start_channel = U32Of(DefaultStartChannel)
    /\ overflow_checks \in BOOLEAN
    /\ games = <<>>
    /\ gi = 0
    /\ si = 0
    /\ id = 0
    /\ m3u = <<>>
    /\ channels = <<>>
    /\ programmes = <<>>
    /\ playlist_file = NoFile
    /\ xmltv_file = NoFile
    /\ failed = {}
    /\ sport \in {"Nhl", "Mlb"}
    /\ game_count = 0
    /\ inputs = <<>>
    /\ choice = 0
    /\ reprompts = 0
    /\ epg_left = 0
    /\ items = NoItems
    /\ game_prompts = 0
    /\ stream_prompts = 0
    /\ stdout = <<>>
    /\ last_err = ""

\* what a line read from standard input parses to as usize
NotANumber == [numeric |-> FALSE, val |-> 0]
Number(n) == [numeric |-> TRUE, val |-> n]
InputValues == {NotANumber} \cup {Number(n) : n \in (0 .. MaxListed + 1) \cup {999}}

\* variant: the test lets 0 through
AcceptsZero(v, count) == v.numeric /\ v.val >= 0 /\ v.val <= count

\* normal.rs 54-57 / 81-84: input::<usize>().add_test(|i| *i > 0 && *i <= count)
\* accepts a line only when it parses and passes the test
Accepts(v, count) == v.numeric /\ v.val > 0 /\ v.val <= count

\* variant: an Err is dropped
IgnoreErr(ok) == "go_on"

\* the ? operator of normal.rs 36-115: an Err returns from process, an Ok goes on
Try(ok) == IF ok THEN "go_on" ELSE "return_err"

\* the format_err! / error texts of normal.rs
ErrText(cause) ==
    CASE cause = "schedule"   -> "schedule fetch failed"
      [] cause = "game"       -> "Invalid game choice"
      [] cause = "content"    -> "game content fetch failed"
      [] cause = "epg"        -> "No streams available yet"
      [] cause = "feed_type"  -> "Unexpected error, media feed type is empty"
      [] cause = "stream"     -> "Invalid stream choice"
      [] cause = "playback"   -> "Unexpected error, stream media playback id is empty"
      [] cause = "stream_id"  -> "Unexpected error, stream id is empty"
      [] cause = "master_url" -> "master url fetch failed"
      [] cause = "master_m3u8" -> "master m3u8 fetch failed"
      [] cause = "quality"    -> "quality not found"

\* normal.rs 15-18: process returned Err(e): log_error(&e); process::exit(1)
NormalFail(cause) ==
    /\ pc' = "error"
    /\ exit_code' = 1
    /\ stderr' = Append(stderr, ErrText(cause))

\* normal.rs 36-57: get_schedule_for(date).await?, the list of games, and the
\* start of the game input loop
GetSchedule ==
    /\ pc = "n_start"
    /\ \E r \in {"Ok", "Err"} :
         /\ last_err' = IF r = "Ok" THEN "" ELSE "schedule"
         /\ IF Try(r = "Ok") = "return_err"
            THEN /\ NormalFail("schedule")
                 /\ UNCHANGED game_count
            ELSE /\ \E n \in 0 .. MaxListed : game_count' = n
                 /\ pc' = "pick_game"
                 /\ UNCHANGED <<exit_code, stderr>>
    /\ inputs' = <<>>
    /\ reprompts' = 0
    /\ UNCHANGED <<sport, choice, epg_left, items, game_prompts, stream_prompts, stdout>>
    /\ UNCHANGED <<output_type, gen_vars>>

\* normal.rs 54-57: one line read by the game input loop
ReadGameChoice ==
    /\ pc = "pick_game"
    /\ \E v \in InputValues :
         /\ inputs' = Append(inputs, v)
         /\ IF Accepts(v, game_count)
            THEN /\ choice' = v.val
                 /\ game_prompts' = game_prompts + 1
                 /\ pc' = "game_chosen"
                 /\ UNCHANGED reprompts
            ELSE /\ reprompts < MaxReprompts
                 /\ reprompts' = reprompts + 1
                 /\ UNCHANGED <<choice, game_prompts, pc>>
    /\ last_err' = ""
    /\ UNCHANGED <<exit_code, stderr, sport, game_count, epg_left, items, stream_prompts,
                   stdout>>
    /\ UNCHANGED <<output_type, gen_vars>>

\* normal.rs 58-67: the chosen game, get_game_content(game.game_pk).await?, and
\* the EPG list of the content
GetGameContent ==
    /\ pc = "game_chosen"
    /\ IF choice = 0 /\ overflow_checks
       THEN /\ Panic("attempt to subtract with overflow")
            /\ last_err' = ""
            /\ UNCHANGED epg_left
       ELSE IF ~(choice >= 1 /\ choice - 1 < game_count)
       THEN /\ last_err' = "game"
            /\ NormalFail("game")
            /\ UNCHANGED epg_left
       ELSE \E r \in {"Ok", "Err"}, epg \in {"None", "Some"}, n \in 0 .. MaxEpg :
              LET cause == IF r = "Err" THEN "content"
                           ELSE IF epg = "None" THEN "epg" ELSE ""
              IN  /\ last_err' = cause
                  /\ IF Try(cause = "") = "return_err"
                     THEN /\ NormalFail(cause)
                          /\ UNCHANGED epg_left
                     ELSE /\ epg_left' = n
                          /\ pc' = "epg_loop"
                          /\ UNCHANGED <<exit_code, stderr>>
    /\ inputs' = <<>>
    /\ reprompts' = 0
    /\ UNCHANGED <<sport, game_count, choice, items, game_prompts, stream_prompts, stdout>>
    /\ UNCHANGED <<output_type, gen_vars>>

EpgTitles == {"NHLTV", "MLBTV", "Extended Highlights"}

\* normal.rs 69-84, 122-124: the next EPG entry: its title, its items, the list of
\* feed types and the start of the stream input loop; Ok(()) after the last entry
NextEpg ==
    /\ pc = "epg_loop"
    /\ IF epg_left = 0
       THEN /\ pc' = "done"
            /\ exit_code' = 0
            /\ last_err' = ""
            /\ UNCHANGED <<stderr, epg_left, items, inputs, reprompts>>
       ELSE \E title \in EpgTitles, it \in {NoItems} \cup {Some(n) : n \in 0 .. MaxListed},
               feed_types \in {"all", "one_empty"} :
              /\ epg_left' = epg_left - 1
              /\ IF ~(title = "NHLTV" \/ title = "MLBTV") \/ ~it.some
                 THEN /\ last_err' = ""
                      /\ UNCHANGED <<pc, exit_code, stderr, items, inputs, reprompts>>
                 ELSE LET cause == IF it.val > 0 /\ feed_types = "one_empty"
                                   THEN "feed_type" ELSE ""
                      IN  /\ last_err' = cause
                          /\ IF Try(cause = "") = "return_err"
                             THEN /\ NormalFail(cause)
                                  /\ UNCHANGED <<items, inputs, reprompts>>
                             ELSE /\ items' = it
                                  /\ inputs' = <<>>
                                  /\ reprompts' = 0
                                  /\ pc' = "pick_stream"
                                  /\ UNCHANGED <<exit_code, stderr>>
    /\ UNCHANGED <<sport, game_count, choice, game_prompts, stream_prompts, stdout>>
    /\ UNCHANGED <<output_type, gen_vars>>

\* normal.rs 81-84: one line read by the stream input loop
ReadStreamChoice ==
    /\ pc = "pick_stream"
    /\ \E v \in InputValues :
         /\ inputs' = Append(inputs, v)
         /\ IF Accepts(v, items.val)
            THEN /\ choice' = v.val
                 /\ stream_prompts' = stream_prompts + 1
                 /\ pc' = "stream_chosen"
                 /\ UNCHANGED reprompts
            ELSE /\ reprompts < MaxReprompts
                 /\ reprompts' = reprompts + 1
                 /\ UNCHANGED <<choice, stream_prompts, pc>>
    /\ last_err' = ""
    /\ UNCHANGED <<exit_code, stderr, sport, game_count, epg_left, items, game_prompts,
                   stdout>>
    /\ UNCHANGED <<output_type, gen_vars>>

\* normal.rs 112-119: what is printed for the chosen stream, or the step that failed
ResolveOutcomes(q) ==
    IF q = "Some"
    THEN { [cause |-> "", url |-> "quality_url"],
           [cause |-> "master_url", url |-> ""],
           [cause |-> "master_m3u8", url |-> ""],
           [cause |-> "quality", url |-> ""] }
    ELSE { [cause |-> "", url |-> "manifest_fetch_url"] }

\* normal.rs 86-119: the chosen stream, its id, its URL, and the URL printed
PrintStream ==
    /\ pc = "stream_chosen"
    /\ IF choice = 0 /\ overflow_checks
       THEN /\ Panic("attempt to subtract with overflow")
            /\ last_err' = ""
            /\ UNCHANGED stdout
       ELSE IF ~(choice >= 1 /\ choice - 1 < items.val)
       THEN /\ last_err' = "stream"
            /\ NormalFail("stream")
            /\ UNCHANGED stdout
       ELSE \E has_id \in BOOLEAN, out \in ResolveOutcomes(quality) :
              LET cause == IF ~has_id
                           THEN (IF sport = "Nhl" THEN "playback" ELSE "stream_id")
                           ELSE out.cause
              IN  /\ last_err' = cause
                  /\ IF Try(cause = "") = "return_err"
                     THEN /\ NormalFail(cause)
                          /\ UNCHANGED stdout
                     ELSE /\ stdout' = Append(stdout, out.url)
                          /\ pc' = "epg_loop"
                          /\ UNCHANGED <<exit_code, stderr>>
    /\ inputs' = <<>>
    /\ reprompts' = 0
    /\ UNCHANGED <<sport, game_count, choice, epg_left, items, game_prompts,
                   stream_prompts>>
    /\ UNCHANGED <<output_type, gen_vars>>

NextNormal ==
    \/ GetSchedule
    \/ ReadGameChoice
    \/ GetGameContent
    \/ NextEpg
    \/ ReadStreamChoice
    \/ PrintStream

----------------------------------------------------------------------------
\* main.rs 19-26: main dispatches on the output type
Init == InitNormal \/ InitGenerate

Next == NextNormal \/ NextGenerate

Spec == Init /\ [][Next]_vars

----------------------------------------------------------------------------
\* Properties of the playlist and the guide

\* the streams whose link resolved in a pass, in game-then-stream order
Resolved(pass) ==
    LET Ok(st) == <<pass, st[1], st[2]>> \notin failed
    IN  SelectSeq(AllStreams(games), Ok)

\* C1: every playlist file create_playlist writes holds exactly one record per
\* stream whose link resolved, in game-then-stream order, and its k-th record
\* (from 0) carries CUID = tvg-id = start_channel + k (the u32 sum the code
\* computes) and tvg-name "Lazyman k+1": a failed stream leaves no gap.
C1_PlaylistContiguous ==
    playlist_file.written =>
        LET recs == playlist_file.records
            ok   == Resolved("m3u")
        IN  /\ Len(recs) = Len(ok)
            /\ \A k \in 1 .. Len(recs) :
                 /\ <<recs[k].game, recs[k].feed>> = ok[k]
                 /\ recs[k].cuid = U32WrappingAdd(start_channel, k - 1)
                 /\ recs[k].tvg_id = U32WrappingAdd(start_channel, k - 1)
                 /\ recs[k].tvg_name = k

\* a playlist was written although the first stream failed and a later one resolved
C1_Witness ==
    /\ playlist_file.written
    /\ <<"m3u", 1, "HOME">> \in failed
    /\ Len(playlist_file.records) >= 1
    /\ playlist_file.records[1].feed = "AWAY"
    /\ playlist_file.records[1].cuid = start_channel

\* C2: once both files are written, a stream that has a playlist record and a
\* programme element has the same number in both (tvg-id = channel).
C2_SameNumberInBothFiles ==
    xmltv_file.written =>
        \A i \in 1 .. Len(playlist_file.records), j \in 1 .. Len(xmltv_file.programmes) :
            LET r == playlist_file.records[i]
                p == xmltv_file.programmes[j]
            IN  (r.game = p.game /\ r.feed = p.feed) => r.tvg_id = p.channel

\* the channel bank as the claim states it
BankOf(sc) == [k \in 1 .. 100 |-> [id |-> U32WrappingAdd(sc, k - 1), display_name |-> k]]

\* C3: create_xmltv emits exactly 100 channel elements, ids start_channel ..
\* start_channel+99 (u32 sums) named "Lazyman 1" .. "Lazyman 100", whatever the
\* schedule and however many streams resolve, and all of them before the first
\* programme element.
C3_HundredChannels ==
    /\ pc \in {"xml_game", "xml_stream", "xml_write"} => channels = BankOf(start_channel)
    /\ programmes # <<>> => channels = BankOf(start_channel)
    /\ xmltv_file.written => xmltv_file.channels = BankOf(start_channel)

\* a guide was written in which more than 100 streams resolved
C3_Witness ==
    /\ xmltv_file.written
    /\ Len(xmltv_file.programmes) > 100
    /\ Len(xmltv_file.channels) = 100

\* every programme of the guide text refers to a channel element of the text
ProgrammesInBank ==
    \A j \in 1 .. Len(programmes) :
        \E k \in 1 .. Len(channels) : channels[k].id = programmes[j].channel

\* no start_channel + id that create_xmltv has evaluated left the u32 range
NoChannelOverflow ==
    /\ channels # <<>> => ~U32Overflows(start_channel, Len(channels) - 1)
    /\ programmes # <<>> => ~U32Overflows(start_channel, Len(programmes) - 1)

\* C10: the channel of every programme element is the id of a channel element of
\* the same file, for any number of resolved streams, and start_channel + id
\* never leaves the u32 range.
C10_ProgrammeChannelsDefined == ProgrammesInBank /\ NoChannelOverflow

\* C6: in batch generation, once the schedule is fetched the run aborts only
\* when writing an output file fails, and in Xmltv mode the guide is written
\* whenever the playlist write succeeded (unless the guide write itself fails).
C6_OnlyWriteAborts ==
    output_type = "Playlist" =>
        /\ exit_code \in {1, 101} =>
              stderr[Len(stderr)] \in {"schedule fetch failed", "write failed"}
        /\ (command = "Xmltv" /\ playlist_file.written /\ exit_code # -1
              /\ ~xmltv_file.written) => stderr[Len(stderr)] = "write failed"

\* C7: when a quality is requested and resolving it fails, the master URL is
\* never emitted in its place: batch mode pushes no playlist record and no
\* programme element for that stream and no record carries the master URL;
\* single mode prints nothing in the failing step, never prints the master URL,
\* and fails the run.
C7_NoMasterFallback ==
    /\ [](quality = "Some" =>
            /\ \A k \in 1 .. Len(m3u) :
                 /\ m3u[k].link # "master_url"
                 /\ <<"m3u", m3u[k].game, m3u[k].feed>> \notin failed
            /\ \A k \in 1 .. Len(playlist_file.records) :
                 /\ playlist_file.records[k].link # "master_url"
                 /\ <<"m3u", playlist_file.records[k].game,
                      playlist_file.records[k].feed>> \notin failed
            /\ \A k \in 1 .. Len(programmes) :
                 <<"xml", programmes[k].game, programmes[k].feed>> \notin failed
            /\ \A k \in 1 .. Len(stdout) :
                 stdout[k] \notin {"master_url", "manifest_fetch_url"}
            /\ last_err \in {"master_url", "master_m3u8", "quality"} =>
                 (pc = "error" /\ exit_code = 1))
    /\ [][(quality = "Some" /\ last_err' \in {"master_url", "master_m3u8", "quality"})
            => stdout' = stdout]_vars

\* a playlist was written with a quality requested and a stream that failed
C7_Witness ==
    /\ quality = "Some"
    /\ playlist_file.written
    /\ \E g \in 1 .. Len(games), f \in {"HOME", "AWAY"} : <<"m3u", g, f>> \in failed
    /\ Len(playlist_file.records) >= 1

\* the end-to-end scenario: 1 game, feeds HOME and AWAY, both resolved at the
\* requested quality in both passes, both files written
EndToEnd ==
    /\ output_type = "Playlist"
    /\ command = "Xmltv"
    /\ quality = "Some"
    /\ games = <<[streams |-> Some(<<"HOME", "AWAY">>)]>>
    /\ failed = {}
    /\ playlist_file.written
    /\ xmltv_file.written

\* C8 as stated: 2 #EXTINF records each titled with kickoff time and team names,
\* 100 channel elements, then 2 programme elements whose channels are the
\* tvg-ids of the 2 records.
C8_EndToEndAsStated ==
    EndToEnd =>
        /\ Len(playlist_file.records) = 2
        /\ \A k \in 1 .. Len(playlist_file.records) :
             /\ playlist_file.records[k].title.fmt = "{time} {away} @ {home} {feed}"
             /\ playlist_file.records[k].title.game = 1
        /\ Len(xmltv_file.channels) = 100
        /\ Len(xmltv_file.programmes) = 2
        /\ \A k \in 1 .. 2 :
             xmltv_file.programmes[k].channel = playlist_file.records[k].tvg_id

\* C8 amended: the 2 #EXTINF records are titled "Lazyman 1" and "Lazyman 2"; the
\* kickoff time, feed type and team names title the 2 programme elements; the
\* rest as stated.
C8_EndToEnd ==
    EndToEnd =>
        /\ Len(playlist_file.records) = 2
        /\ \A k \in 1 .. Len(playlist_file.records) :
             /\ playlist_file.records[k].title.fmt = "Lazyman {}"
             /\ playlist_file.records[k].title.n = k
        /\ Len(xmltv_file.channels) = 100
        /\ Len(xmltv_file.programmes) = 2
        /\ \A k \in 1 .. 2 :
             /\ xmltv_file.programmes[k].channel = playlist_file.records[k].tvg_id
             /\ xmltv_file.programmes[k].title.fmt = "{time} {feed} {away} @ {home}"
             /\ xmltv_file.programmes[k].title.game = 1
             /\ xmltv_file.programmes[k].title.feed = playlist_file.records[k].feed

C8_Witness == EndToEnd /\ pc = "done" /\ exit_code = 0

----------------------------------------------------------------------------
\* Properties of the interactive flow

\* the list the running (or just ended) input loop selects from
ListCount == IF pc \in {"pick_game", "game_chosen"} THEN game_count ELSE items.val

\* an input the selection must reject: non-numeric, or outside [1, count]
Rejected(v, count) == ~v.numeric \/ v.val < 1 \/ v.val > count

\* C4: over a list of count >= 1 items the selection rejects and re-prompts on
\* every non-numeric or out-of-range input without failing, returns only on an
\* input v in [1, count], yielding index v-1; 0, 999, 2 on 3 items yields
\* index 1 after exactly two re-prompts; the "Invalid ... choice" errors never
\* occur.
C4_Selection ==
    /\ pc \in {"pick_game", "pick_stream"} =>
          /\ \A i \in 1 .. Len(inputs) : Rejected(inputs[i], ListCount)
          /\ reprompts = Len(inputs)
          /\ exit_code = -1
    /\ pc \in {"game_chosen", "stream_chosen"} =>
          /\ Len(inputs) >= 1
          /\ inputs[Len(inputs)] = [numeric |-> TRUE, val |-> choice]
          /\ choice >= 1 /\ choice <= ListCount
          /\ choice - 1 \in 0 .. ListCount - 1
          /\ \A i \in 1 .. Len(inputs) - 1 : Rejected(inputs[i], ListCount)
          /\ reprompts = Len(inputs) - 1
    /\ (/\ pc \in {"game_chosen", "stream_chosen"}
        /\ ListCount = 3
        /\ inputs = <<[numeric |-> TRUE, val |-> 0], [numeric |-> TRUE, val |-> 999],
                      [numeric |-> TRUE, val |-> 2]>>)
          => (choice - 1 = 1 /\ reprompts = 2)
    /\ \A i \in 1 .. Len(stderr) :
          stderr[i] \notin {"Invalid game choice", "Invalid stream choice"}
    /\ output_type = "Normal" => pc # "panicked"

\* 0, 999, 2 were read on a list of 3 games and the selection returned
C4_Witness ==
    /\ pc = "game_chosen"
    /\ game_count = 3
    /\ inputs = <<[numeric |-> TRUE, val |-> 0], [numeric |-> TRUE, val |-> 999],
                  [numeric |-> TRUE, val |-> 2]>>
    /\ choice = 2
    /\ reprompts = 2

\* C5: in single mode a failed schedule fetch, game-content fetch, absent EPG
\* list ("No streams available yet", a text no other failure has), missing feed
\* type or stream id, or failed master/quality resolution ends the run in the
\* error state at that step (error logged, exit code 1): the step prints no URL
\* and no step follows.
C5_ErrorsAbort ==
    /\ []((output_type = "Normal" /\ last_err # "") =>
            /\ pc = "error"
            /\ exit_code = 1
            /\ stderr # <<>>
            /\ (stderr[Len(stderr)] = "No streams available yet") <=> (last_err = "epg"))
    /\ [][output_type = "Normal" =>
            /\ pc # "error"
            /\ last_err' # "" => stdout' = stdout]_vars

\* the run ended in the error state because the EPG list was absent
C5_Witness ==
    /\ output_type = "Normal"
    /\ last_err = "epg"
    /\ pc = "error"
    /\ exit_code = 1
    /\ stderr = <<"No streams available yet">>

\* C9: a single-mode run that ends with Ok has prompted for exactly one game and
\* exactly one feed and has printed exactly one stream URL.
C9_OneGameOneFeedOneUrl ==
    (output_type = "Normal" /\ pc = "done") =>
        /\ game_prompts = 1
        /\ stream_prompts = 1
        /\ Len(stdout) = 1

====
